---- MODULE Spec2Model ----
(***************************************************************************)
(* BemiDB: the S3 storage backend (src/src/storage_s3.go) that writes one  *)
(* Iceberg snapshot per table, and the SELECT table remapper               *)
(* (src/unnamed/part_000) that rewrites table references against a cached  *)
(* listing of that backend.                                                *)
(*                                                                         *)
(* A string is the sequence of its tokens: every digit and every "/" is a   *)
(* token of its own, every longest run of other characters is one token;   *)
(* "v1.metadata.json" is <<"v", "1", ".metadata.json">> and "" is <<>>.     *)
(* Concatenation is \o. No concatenation of the program joins two runs, so  *)
(* two strings are equal exactly when their sequences are.                 *)
(***************************************************************************)
EXTENDS Integers, Sequences, FiniteSets, TLC

VARIABLES
    objects,              \* the S3 bucket: key -> stored object
    nextUuid,             \* how many uuid.New() calls have been made
    pc,                   \* per writer: the statement the commit is at
    ctx,                  \* per writer: the locals of the commit
    tempFile,             \* per writer: the local scratch file, if one exists
    pre,                  \* per writer: the bucket as it was when the commit started
    icebergSchemaTables,  \* the remapper's cached enumeration
    lastRemap,            \* the RemapTable call that is returning its node, if one is
    lastDelete,           \* the DeleteSchemaTable call that is returning, if one is
    race                  \* two RemapTable calls that run at once on one remapper

vars == <<objects, nextUuid, pc, ctx, tempFile, pre, icebergSchemaTables, lastRemap,
          lastDelete, race>>

-----------------------------------------------------------------------------
(* Bounds *)

MaxUuid == 1        \* commits started over a run (each draws one fresh uuid)
MaxRows == 1        \* rows the row producer returns, at most

-----------------------------------------------------------------------------
(* Optional values *)

None == <<>>
Some(x) == <<x>>
Get(o) == o[1]

-----------------------------------------------------------------------------
(* Strings *)

SLASH == "/"

\* strings.HasPrefix
HasPrefix(s, p) == Len(p) <= Len(s) /\ SubSeq(s, 1, Len(p)) = p

\* the index of the first "/" of s at or after position i, 0 when there is none
RECURSIVE IndexFrom(_, _)
IndexFrom(s, i) ==
    IF i > Len(s) THEN 0
    ELSE IF s[i] = SLASH THEN i
    ELSE IndexFrom(s, i + 1)

\* strings.Split(s, "/"): the pieces between the separators, empty pieces kept
RECURSIVE Split(_)
Split(s) ==
    LET i == IndexFrom(s, 1) IN
    IF i = 0 THEN <<s>>
    ELSE <<SubSeq(s, 1, i - 1)>> \o Split(SubSeq(s, i + 1, Len(s)))

Digits == <<"0", "1", "2", "3", "4", "5", "6", "7", "8", "9">>

\* fmt.Sprintf("%d", n) for n >= 0
RECURSIVE FormatInt(_)
FormatInt(n) ==
    IF n < 10 THEN <<Digits[n + 1]>>
    ELSE FormatInt(n \div 10) \o <<Digits[(n % 10) + 1]>>

-----------------------------------------------------------------------------
(* Configuration and the names the model draws from *)

IcebergPath == <<"iceberg">>           \* config.IcebergPath
S3Bucket == <<"bucket">>               \* config.Aws.S3Bucket
VERSION_HINT_FILE_NAME == <<"version-hint.text">>

PG_SCHEMA_PUBLIC == <<"public">>
PG_SCHEMA_PG_CATALOG == <<"pg_catalog">>
PG_SCHEMA_INFORMATION_SCHEMA == <<"information_schema">>

SchemaTable(schema, table) == [Schema |-> schema, Table |-> table]

\* the tables commits are made to, and that are deleted, while the server runs
WrittenSchemaTables ==
    { SchemaTable(PG_SCHEMA_PUBLIC, <<"t">>),
      SchemaTable(PG_SCHEMA_PUBLIC, <<"t", "1">>) }

\* the commit invocation of a connection that commits one table after the other
Writers == {1}

RowsOf(n) == [i \in 1..n |-> <<"row", i>>]
RowSets == { RowsOf(n) : n \in 0..MaxRows }

\* the snapshot id generated for the n-th commit
SnapshotIdOf(n) == 10 + n

-----------------------------------------------------------------------------
(* StorageS3: paths *)

tablePrefix(schemaTable) ==
    IcebergPath \o <<SLASH>> \o schemaTable.Schema \o <<SLASH>> \o schemaTable.Table \o <<SLASH>>

fileSystemPrefix == <<"s", "3", ":", SLASH, SLASH>> \o S3Bucket \o <<SLASH>>

\* the path without the file-system prefix
IcebergMetadataFilePath_NoPrefix(schemaTable) ==
    tablePrefix(schemaTable) \o <<"metadata", SLASH, "v", "1", ".metadata.json">>

IcebergMetadataFilePath(schemaTable) ==
    fileSystemPrefix \o tablePrefix(schemaTable) \o <<"metadata", SLASH, "v", "1", ".metadata.json">>

CreateDataDir(schemaTable) == tablePrefix(schemaTable) \o <<"data">>

\* the directory with a separator at its end
CreateMetadataDir_TrailingSlash(schemaTable) == tablePrefix(schemaTable) \o <<"metadata", SLASH>>

CreateMetadataDir(schemaTable) == tablePrefix(schemaTable) \o <<"metadata">>

\* uuid.New().String() of the n-th call: hexadecimal groups, a new value at each call
UuidString(n) == FormatInt(n) \o <<"c-", "4">>

-----------------------------------------------------------------------------
(* The bucket *)

Put(objs, key, object) ==
    [k \in (DOMAIN objs) \cup {key} |-> IF k = key THEN object ELSE objs[k]]

Remove(objs, keys) == [k \in (DOMAIN objs) \ keys |-> objs[k]]

\* ListObjectsV2 with Prefix and Delimiter "/": the CommonPrefixes of the response
nestedDirectoryPrefixes(objs, prefix) ==
    { SubSeq(k, 1, IndexFrom(k, Len(prefix) + 1)) :
        k \in { x \in DOMAIN objs : HasPrefix(x, prefix) /\ IndexFrom(x, Len(prefix) + 1) # 0 } }

IcebergSchemaTables(objs) ==
    LET schemasPrefix == IcebergPath \o <<SLASH>>
        schemaPrefixes == nestedDirectoryPrefixes(objs, schemasPrefix)
        tablesOf(schemaPrefix) ==
            LET schemaParts == Split(schemaPrefix)
                schema == schemaParts[Len(schemaParts) - 1]
                tables == nestedDirectoryPrefixes(objs, schemaPrefix)
            IN { SchemaTable(schema, Split(tablePrefixStr)[Len(Split(tablePrefixStr)) - 1]) :
                    tablePrefixStr \in tables }
    IN UNION { tablesOf(schemaPrefix) : schemaPrefix \in schemaPrefixes }

\* the ListObjectsV2 calls of one IcebergSchemaTables call that can return an error: none,
\* the listing of the schemas, or the listing of the tables of one schema
ListingFailures ==
    { None, Some(IcebergPath \o <<SLASH>>),
      Some(IcebergPath \o <<SLASH>> \o PG_SCHEMA_PUBLIC \o <<SLASH>>),
      Some(IcebergPath \o <<SLASH>> \o PG_SCHEMA_PG_CATALOG \o <<SLASH>>) }

\* the listing whose error IcebergSchemaTables meets, if it makes it
FailedListing(objs, failing) ==
    LET schemasPrefix == IcebergPath \o <<SLASH>>
    IN IF failing = None THEN None
       ELSE IF Get(failing) = schemasPrefix THEN failing
       ELSE IF Get(failing) \in nestedDirectoryPrefixes(objs, schemasPrefix) THEN failing
       ELSE None

\* IcebergSchemaTables that leaves out the schema whose listing fails
IcebergSchemaTablesOrError_Partial(objs, failing) ==
    LET schemasPrefix == IcebergPath \o <<SLASH>>
    IN IF failing # None /\ Get(failing) = schemasPrefix THEN None
       ELSE IF FailedListing(objs, failing) = None THEN Some(IcebergSchemaTables(objs))
       ELSE Some({ st \in IcebergSchemaTables(objs) :
                     schemasPrefix \o st.Schema \o <<SLASH>> # Get(failing) })

\* IcebergSchemaTables, the listing `failing` returning an error when it is made: the
\* first error is returned with no tables, and the tables are returned when there is none
IcebergSchemaTablesOrError(objs, failing) ==
    IF FailedListing(objs, failing) # None THEN None ELSE Some(IcebergSchemaTables(objs))

-----------------------------------------------------------------------------
(* Objects and descriptors *)

EmptyFile == [kind |-> "empty", complete |-> FALSE]

DataObject(rows) == [kind |-> "data", rows |-> rows, complete |-> TRUE]

\* HeadObject's ContentLength of a data file
ContentLength(object) == Len(object.rows)

\* StorageBase.ReadParquetStats of a data file
ReadParquetStats(object) == [rowCount |-> Len(object.rows)]

NoCtx ==
    [schemaTable |-> None, rows |-> None, dataDirPath |-> None, metadataDirPath |-> None,
     uuid |-> None, fileKey |-> None, recordCount |-> None, fileSize |-> None,
     parquetFile |-> None, manifestFile |-> None, manifestListFile |-> None,
     metadataFile |-> None, failedAt |-> None]

\* StorageBase.WriteParquetFile: the rows go to the writer opened on fileKey and the
\* object appears when the writer is closed; the number of rows written is returned
WriteParquetFile(objs, fileKey, rows) == Put(objs, fileKey, DataObject(rows))

\* StorageBase.WriteManifestFile: the manifest of one data file, under a new snapshot id
WriteManifestFile(fsPrefix, parquetFile, snapshotId) ==
    [kind |-> "manifest", complete |-> TRUE, snapshotId |-> snapshotId,
     dataFilePath |-> fsPrefix \o parquetFile.Path,
     recordCount |-> parquetFile.RecordCount, fileSize |-> parquetFile.Size]

\* StorageBase.WriteManifestListFile: the manifest list of one manifest
WriteManifestListFile(fsPrefix, parquetFile, manifestFile) ==
    [kind |-> "manifest_list", complete |-> TRUE, snapshotId |-> manifestFile.SnapshotId,
     manifestPath |-> fsPrefix \o manifestFile.Path,
     recordCount |-> parquetFile.RecordCount]

\* StorageBase.WriteMetadataFile: the table metadata with its one snapshot
WriteMetadataFile(fsPrefix, parquetFile, manifestFile, manifestListFile) ==
    [kind |-> "metadata", complete |-> TRUE, snapshotId |-> manifestFile.SnapshotId,
     manifestListPath |-> fsPrefix \o manifestListFile.Path,
     recordCount |-> parquetFile.RecordCount]

\* StorageBase.WriteVersionHintFile: the version of the metadata file
WriteVersionHintFile(metadataFile) ==
    [kind |-> "version_hint", complete |-> TRUE, version |-> metadataFile.Version]

\* an upload that reports an error although the object was stored
uploadFile_StoresOnError(objs, filePath, file, ok) == Put(objs, filePath, file)

\* manager.Uploader.Upload of the scratch file's content: on an error nothing is stored
uploadFile(objs, filePath, file, ok) ==
    IF ok THEN Put(objs, filePath, file) ELSE objs

-----------------------------------------------------------------------------
(* The names of the artifacts *)

\* the name without the uuid
ParquetFileName_NoUuid(uuid) == <<"0", "0", "0", "0", "0", "-", "0", ".parquet">>

ParquetFileName(uuid) == <<"0", "0", "0", "0", "0", "-", "0", "-">> \o uuid \o <<".parquet">>

ManifestFileName(parquetFile) == parquetFile.Uuid \o <<"-m", "0", ".avro">>

ManifestListFileName(parquetFile, manifestFile) ==
    <<"snap-">> \o FormatInt(manifestFile.SnapshotId) \o <<"-", "0", "-">>
                \o parquetFile.Uuid \o <<".avro">>

MetadataVersion == 1

MetadataFileName(version) == <<"v">> \o FormatInt(version) \o <<".metadata.json">>

-----------------------------------------------------------------------------
(* One commit, statement by statement *)

Goto(w, label) == pc' = [pc EXCEPT ![w] = label]

\* an error return: the caller stops the commit
Fail(w) ==
    /\ pc' = [pc EXCEPT ![w] = "failed"]
    /\ ctx' = [ctx EXCEPT ![w].failedAt = Some(pc[w])]

\* CreateTemporaryFile
CreateTemporaryFile(w) == tempFile' = [tempFile EXCEPT ![w] = Some(EmptyFile)]

\* DeleteTemporaryFile
DeleteTemporaryFile(w) == tempFile' = [tempFile EXCEPT ![w] = None]

\* the order in which IcebergWriter.Write calls the storage
AfterStep(step) ==
    CASE step = "parquet" -> "manifest_temp"
      [] step = "manifest" -> "list_temp"
      [] step = "list" -> "metadata_temp"
      [] step = "metadata" -> "hint_temp"
      [] step = "hint" -> "done"

\* the commit of rows to schemaTable starts; one commit runs at a time
Write_Begin(w) ==
    /\ \A v \in Writers : pc[v] = "idle"
    /\ lastRemap = None
    /\ lastDelete = None
    /\ nextUuid < MaxUuid
    /\ \E schemaTable \in WrittenSchemaTables, rows \in RowSets :
        ctx' = [ctx EXCEPT ![w] =
                    [NoCtx EXCEPT !.schemaTable = Some(schemaTable),
                                  !.rows = Some(rows),
                                  !.dataDirPath = Some(CreateDataDir(schemaTable)),
                                  !.metadataDirPath = Some(CreateMetadataDir(schemaTable))]]
    /\ pre' = [pre EXCEPT ![w] = objects]
    /\ Goto(w, "parquet_open")
    /\ UNCHANGED <<objects, nextUuid, tempFile, icebergSchemaTables, lastRemap, lastDelete, race>>

\* a commit starts while another one may be under way: nothing coordinates the commits
\* of two connections. Each of the two connections commits once, to the same table
Write_BeginConcurrent(w) ==
    /\ pc[w] = "idle"
    /\ ctx[w] = NoCtx
    /\ \E schemaTable \in WrittenSchemaTables, rows \in RowSets :
        /\ \A v \in DOMAIN pc \ {w} :
              ctx[v].schemaTable # None => Get(ctx[v].schemaTable) = schemaTable
        /\ ctx' = [ctx EXCEPT ![w] =
                    [NoCtx EXCEPT !.schemaTable = Some(schemaTable),
                                  !.rows = Some(rows),
                                  !.dataDirPath = Some(CreateDataDir(schemaTable)),
                                  !.metadataDirPath = Some(CreateMetadataDir(schemaTable))]]
    /\ pre' = [pre EXCEPT ![w] = objects]
    /\ Goto(w, "parquet_open")
    /\ UNCHANGED <<objects, nextUuid, tempFile, icebergSchemaTables, lastRemap, lastDelete, race>>

\* the commit has returned to its caller
Write_Return(w) ==
    /\ pc[w] \in {"done", "failed"}
    /\ Goto(w, "idle")
    /\ ctx' = [ctx EXCEPT ![w] = NoCtx]
    /\ pre' = [pre EXCEPT ![w] = << >>]
    /\ UNCHANGED <<objects, nextUuid, tempFile, icebergSchemaTables, lastRemap, lastDelete, race>>

\* CreateParquet: the uuid and the key, and the S3 file writer opened on the key
CreateParquet_Open(w) ==
    /\ pc[w] = "parquet_open"
    /\ nextUuid' = nextUuid + 1
    /\ \E ok \in BOOLEAN :
        IF ok
        THEN LET uuid == UuidString(nextUuid')
                 fileName == ParquetFileName(uuid)
                 fileKey == Get(ctx[w].dataDirPath) \o <<SLASH>> \o fileName
             IN /\ ctx' = [ctx EXCEPT ![w].uuid = Some(uuid), ![w].fileKey = Some(fileKey)]
                /\ Goto(w, "parquet_write")
        ELSE Fail(w)
    /\ UNCHANGED <<objects, tempFile, pre, icebergSchemaTables, lastRemap, lastDelete, race>>

\* CreateParquet: the rows are loaded, encoded and written through the file writer
CreateParquet_Write(w) ==
    /\ pc[w] = "parquet_write"
    /\ \E ok \in BOOLEAN :
        IF ok
        THEN /\ objects' = WriteParquetFile(objects, Get(ctx[w].fileKey), Get(ctx[w].rows))
             /\ ctx' = [ctx EXCEPT ![w].recordCount = Some(Len(Get(ctx[w].rows)))]
             /\ Goto(w, "parquet_head")
        ELSE /\ Fail(w)
             /\ UNCHANGED objects
    /\ UNCHANGED <<nextUuid, tempFile, pre, icebergSchemaTables, lastRemap, lastDelete, race>>

\* CreateParquet: the size of the stored object is asked of the bucket
CreateParquet_Head(w) ==
    /\ pc[w] = "parquet_head"
    /\ \E ok \in BOOLEAN :
        IF ok /\ Get(ctx[w].fileKey) \in DOMAIN objects
        THEN /\ ctx' = [ctx EXCEPT ![w].fileSize =
                            Some(ContentLength(objects[Get(ctx[w].fileKey)]))]
             /\ Goto(w, "parquet_stats")
        ELSE Fail(w)
    /\ UNCHANGED <<objects, nextUuid, tempFile, pre, icebergSchemaTables, lastRemap, lastDelete, race>>

\* CreateParquet: the statistics are read back and the descriptor is returned
CreateParquet_Stats(w) ==
    /\ pc[w] = "parquet_stats"
    /\ \E ok \in BOOLEAN :
        IF ok /\ Get(ctx[w].fileKey) \in DOMAIN objects
        THEN /\ ctx' = [ctx EXCEPT ![w].parquetFile =
                            Some([Uuid |-> Get(ctx[w].uuid),
                                  Path |-> Get(ctx[w].fileKey),
                                  Size |-> Get(ctx[w].fileSize),
                                  RecordCount |-> Get(ctx[w].recordCount),
                                  Stats |-> ReadParquetStats(objects[Get(ctx[w].fileKey)])])]
             /\ Goto(w, AfterStep("parquet"))
        ELSE Fail(w)
    /\ UNCHANGED <<objects, nextUuid, tempFile, pre, icebergSchemaTables, lastRemap, lastDelete, race>>

\* CreateManifest: the scratch file is created
CreateManifest_Temp(w) ==
    /\ pc[w] = "manifest_temp"
    /\ \E ok \in BOOLEAN :
        IF ok
        THEN /\ CreateTemporaryFile(w)
             /\ Goto(w, "manifest_write")
             /\ UNCHANGED ctx
        ELSE /\ Fail(w)
             /\ UNCHANGED tempFile
    /\ UNCHANGED <<objects, nextUuid, pre, icebergSchemaTables, lastRemap, lastDelete, race>>

\* CreateManifest going on to the upload after an error of the encoding
CreateManifest_Write_IgnoresError(w) ==
    /\ pc[w] = "manifest_write"
    /\ \E ok \in BOOLEAN :
        LET snapshotId == SnapshotIdOf(nextUuid)
        IN /\ tempFile' = [tempFile EXCEPT ![w] =
                   IF ok
                   THEN Some(WriteManifestFile(fileSystemPrefix, Get(ctx[w].parquetFile), snapshotId))
                   ELSE tempFile[w]]
           /\ ctx' = [ctx EXCEPT ![w].manifestFile =
                   Some([SnapshotId |-> snapshotId, Path |-> None])]
           /\ Goto(w, "manifest_upload")
    /\ UNCHANGED <<objects, nextUuid, pre, icebergSchemaTables, lastRemap, lastDelete, race>>

\* CreateManifest: the manifest is encoded into the scratch file; on an error the scratch
\* file is deleted on return
CreateManifest_Write(w) ==
    /\ pc[w] = "manifest_write"
    /\ \E ok \in BOOLEAN :
        IF ok
        THEN LET snapshotId == SnapshotIdOf(nextUuid)
             IN /\ tempFile' = [tempFile EXCEPT ![w] =
                        Some(WriteManifestFile(fileSystemPrefix, Get(ctx[w].parquetFile), snapshotId))]
                /\ ctx' = [ctx EXCEPT ![w].manifestFile =
                        Some([SnapshotId |-> snapshotId, Path |-> None])]
                /\ Goto(w, "manifest_upload")
        ELSE /\ Fail(w)
             /\ DeleteTemporaryFile(w)
    /\ UNCHANGED <<objects, nextUuid, pre, icebergSchemaTables, lastRemap, lastDelete, race>>

\* CreateManifest returning the descriptor without its path
CreateManifest_Upload_NoPath(w) ==
    /\ pc[w] = "manifest_upload"
    /\ \E ok \in BOOLEAN :
        LET filePath == Get(ctx[w].metadataDirPath) \o <<SLASH>>
                            \o ManifestFileName(Get(ctx[w].parquetFile))
        IN /\ objects' = uploadFile(objects, filePath, Get(tempFile[w]), ok)
           /\ IF ok
              THEN /\ Goto(w, AfterStep("manifest"))
                   /\ UNCHANGED ctx
              ELSE Fail(w)
    /\ DeleteTemporaryFile(w)
    /\ UNCHANGED <<nextUuid, pre, icebergSchemaTables, lastRemap, lastDelete, race>>

\* CreateManifest returning its descriptor whether or not the upload succeeded
CreateManifest_Upload_IgnoresError(w) ==
    /\ pc[w] = "manifest_upload"
    /\ \E ok \in BOOLEAN :
        LET filePath == Get(ctx[w].metadataDirPath) \o <<SLASH>>
                            \o ManifestFileName(Get(ctx[w].parquetFile))
        IN /\ objects' = uploadFile(objects, filePath, Get(tempFile[w]), ok)
           /\ ctx' = [ctx EXCEPT ![w].manifestFile =
                        Some([Get(ctx[w].manifestFile) EXCEPT !.Path = filePath])]
           /\ Goto(w, AfterStep("manifest"))
    /\ DeleteTemporaryFile(w)
    /\ UNCHANGED <<nextUuid, pre, icebergSchemaTables, lastRemap, lastDelete, race>>

\* CreateManifest: the scratch file is uploaded to its key, and deleted on return
CreateManifest_Upload(w) ==
    /\ pc[w] = "manifest_upload"
    /\ \E ok \in BOOLEAN :
        LET filePath == Get(ctx[w].metadataDirPath) \o <<SLASH>>
                            \o ManifestFileName(Get(ctx[w].parquetFile))
        IN /\ objects' = uploadFile(objects, filePath, Get(tempFile[w]), ok)
           /\ IF ok
              THEN /\ ctx' = [ctx EXCEPT ![w].manifestFile =
                                Some([Get(ctx[w].manifestFile) EXCEPT !.Path = filePath])]
                   /\ Goto(w, AfterStep("manifest"))
              ELSE Fail(w)
    /\ DeleteTemporaryFile(w)
    /\ UNCHANGED <<nextUuid, pre, icebergSchemaTables, lastRemap, lastDelete, race>>

\* CreateManifestList: the scratch file is created
CreateManifestList_Temp(w) ==
    /\ pc[w] = "list_temp"
    /\ \E ok \in BOOLEAN :
        IF ok
        THEN /\ CreateTemporaryFile(w)
             /\ Goto(w, "list_write")
             /\ UNCHANGED ctx
        ELSE /\ Fail(w)
             /\ UNCHANGED tempFile
    /\ UNCHANGED <<objects, nextUuid, pre, icebergSchemaTables, lastRemap, lastDelete, race>>

\* CreateManifestList: the manifest list is encoded into the scratch file; on an error the
\* scratch file is deleted on return
CreateManifestList_Write(w) ==
    /\ pc[w] = "list_write"
    /\ \E ok \in BOOLEAN :
        IF ok
        THEN /\ tempFile' = [tempFile EXCEPT ![w] =
                    Some(WriteManifestListFile(fileSystemPrefix, Get(ctx[w].parquetFile),
                                               Get(ctx[w].manifestFile)))]
             /\ UNCHANGED ctx
             /\ Goto(w, "list_upload")
        ELSE /\ Fail(w)
             /\ DeleteTemporaryFile(w)
    /\ UNCHANGED <<objects, nextUuid, pre, icebergSchemaTables, lastRemap, lastDelete, race>>

\* CreateManifestList returning its descriptor whether or not the upload succeeded
CreateManifestList_Upload_IgnoresError(w) ==
    /\ pc[w] = "list_upload"
    /\ \E ok \in BOOLEAN :
        LET filePath == Get(ctx[w].metadataDirPath) \o <<SLASH>>
                            \o ManifestListFileName(Get(ctx[w].parquetFile), Get(ctx[w].manifestFile))
        IN /\ objects' = uploadFile(objects, filePath, Get(tempFile[w]), ok)
           /\ ctx' = [ctx EXCEPT ![w].manifestListFile = Some([Path |-> filePath])]
           /\ Goto(w, AfterStep("list"))
    /\ DeleteTemporaryFile(w)
    /\ UNCHANGED <<nextUuid, pre, icebergSchemaTables, lastRemap, lastDelete, race>>

\* CreateManifestList: the scratch file is uploaded to its key, and deleted on return
CreateManifestList_Upload(w) ==
    /\ pc[w] = "list_upload"
    /\ \E ok \in BOOLEAN :
        LET filePath == Get(ctx[w].metadataDirPath) \o <<SLASH>>
                            \o ManifestListFileName(Get(ctx[w].parquetFile), Get(ctx[w].manifestFile))
        IN /\ objects' = uploadFile(objects, filePath, Get(tempFile[w]), ok)
           /\ IF ok
              THEN /\ ctx' = [ctx EXCEPT ![w].manifestListFile = Some([Path |-> filePath])]
                   /\ Goto(w, AfterStep("list"))
              ELSE Fail(w)
    /\ DeleteTemporaryFile(w)
    /\ UNCHANGED <<nextUuid, pre, icebergSchemaTables, lastRemap, lastDelete, race>>

\* CreateMetadata: the scratch file is created
CreateMetadata_Temp(w) ==
    /\ pc[w] = "metadata_temp"
    /\ \E ok \in BOOLEAN :
        IF ok
        THEN /\ CreateTemporaryFile(w)
             /\ Goto(w, "metadata_write")
             /\ UNCHANGED ctx
        ELSE /\ Fail(w)
             /\ UNCHANGED tempFile
    /\ UNCHANGED <<objects, nextUuid, pre, icebergSchemaTables, lastRemap, lastDelete, race>>

\* CreateMetadata: the metadata is encoded into the scratch file; on an error the
\* scratch file is deleted on return
CreateMetadata_Write(w) ==
    /\ pc[w] = "metadata_write"
    /\ \E ok \in BOOLEAN :
        IF ok
        THEN /\ tempFile' = [tempFile EXCEPT ![w] =
                    Some(WriteMetadataFile(fileSystemPrefix, Get(ctx[w].parquetFile),
                                           Get(ctx[w].manifestFile), Get(ctx[w].manifestListFile)))]
             /\ UNCHANGED ctx
             /\ Goto(w, "metadata_upload")
        ELSE /\ Fail(w)
             /\ DeleteTemporaryFile(w)
    /\ UNCHANGED <<objects, nextUuid, pre, icebergSchemaTables, lastRemap, lastDelete, race>>

\* CreateMetadata: the scratch file is uploaded to its key, and deleted on return
CreateMetadata_Upload(w) ==
    /\ pc[w] = "metadata_upload"
    /\ \E ok \in BOOLEAN :
        LET filePath == Get(ctx[w].metadataDirPath) \o <<SLASH>> \o MetadataFileName(MetadataVersion)
        IN /\ objects' = uploadFile(objects, filePath, Get(tempFile[w]), ok)
           /\ IF ok
              THEN /\ ctx' = [ctx EXCEPT ![w].metadataFile =
                                Some([Version |-> MetadataVersion, Path |-> filePath])]
                   /\ Goto(w, AfterStep("metadata"))
              ELSE Fail(w)
    /\ DeleteTemporaryFile(w)
    /\ UNCHANGED <<nextUuid, pre, icebergSchemaTables, lastRemap, lastDelete, race>>

\* CreateVersionHint: the scratch file is created
CreateVersionHint_Temp(w) ==
    /\ pc[w] = "hint_temp"
    /\ \E ok \in BOOLEAN :
        IF ok
        THEN /\ CreateTemporaryFile(w)
             /\ Goto(w, "hint_write")
             /\ UNCHANGED ctx
        ELSE /\ Fail(w)
             /\ UNCHANGED tempFile
    /\ UNCHANGED <<objects, nextUuid, pre, icebergSchemaTables, lastRemap, lastDelete, race>>

\* CreateVersionHint: the version hint is encoded into the scratch file; on an error the
\* scratch file is deleted on return
CreateVersionHint_Write(w) ==
    /\ pc[w] = "hint_write"
    /\ \E ok \in BOOLEAN :
        IF ok
        THEN /\ tempFile' = [tempFile EXCEPT ![w] = Some(WriteVersionHintFile(Get(ctx[w].metadataFile)))]
             /\ UNCHANGED ctx
             /\ Goto(w, "hint_upload")
        ELSE /\ Fail(w)
             /\ DeleteTemporaryFile(w)
    /\ UNCHANGED <<objects, nextUuid, pre, icebergSchemaTables, lastRemap, lastDelete, race>>

\* CreateVersionHint deleting the scratch file only after an upload that succeeded
CreateVersionHint_Upload_NoDefer(w) ==
    /\ pc[w] = "hint_upload"
    /\ \E ok \in BOOLEAN :
        LET filePath == Get(ctx[w].metadataDirPath) \o <<SLASH>> \o VERSION_HINT_FILE_NAME
        IN /\ objects' = uploadFile(objects, filePath, Get(tempFile[w]), ok)
           /\ IF ok
              THEN /\ Goto(w, AfterStep("hint"))
                   /\ DeleteTemporaryFile(w)
                   /\ UNCHANGED ctx
              ELSE /\ Fail(w)
                   /\ UNCHANGED tempFile
    /\ UNCHANGED <<nextUuid, pre, icebergSchemaTables, lastRemap, lastDelete, race>>

\* CreateVersionHint: the scratch file is uploaded to its key, and deleted on return
CreateVersionHint_Upload(w) ==
    /\ pc[w] = "hint_upload"
    /\ \E ok \in BOOLEAN :
        LET filePath == Get(ctx[w].metadataDirPath) \o <<SLASH>> \o VERSION_HINT_FILE_NAME
        IN /\ objects' = uploadFile(objects, filePath, Get(tempFile[w]), ok)
           /\ IF ok
              THEN /\ Goto(w, AfterStep("hint"))
                   /\ UNCHANGED ctx
              ELSE Fail(w)
    /\ DeleteTemporaryFile(w)
    /\ UNCHANGED <<nextUuid, pre, icebergSchemaTables, lastRemap, lastDelete, race>>

-----------------------------------------------------------------------------
(* DeleteSchemaTable *)

\* ListObjectsV2 with Prefix alone: the keys of the response
ListObjects(objs, prefix) == { k \in DOMAIN objs : HasPrefix(k, prefix) }

\* what a DeleteSchemaTable call did: whether it sent a DeleteObjects request, and the
\* request that returned an error ("" for none)
Deleted(schemaTable, requested, err) ==
    [schemaTable |-> schemaTable, requested |-> requested, err |-> err]

\* DeleteSchemaTable that lists the keys that start with the prefix less its last "/"
DeleteSchemaTable_PrefixWithoutSlash ==
    /\ \A v \in Writers : pc[v] = "idle"
    /\ lastRemap = None
    /\ lastDelete = None
    /\ \E schemaTable \in WrittenSchemaTables, listOk \in BOOLEAN, deleteOk \in BOOLEAN :
        LET prefix == tablePrefix(schemaTable)
            objectsToDelete == ListObjects(objects, SubSeq(prefix, 1, Len(prefix) - 1))
        IN IF ~listOk
           THEN /\ objects' = objects
                /\ lastDelete' = Some(Deleted(schemaTable, FALSE, "list"))
           ELSE IF objectsToDelete = {}
           THEN /\ objects' = objects
                /\ lastDelete' = Some(Deleted(schemaTable, FALSE, ""))
           ELSE IF ~deleteOk
           THEN /\ objects' = objects
                /\ lastDelete' = Some(Deleted(schemaTable, TRUE, "delete"))
           ELSE /\ objects' = Remove(objects, objectsToDelete)
                /\ lastDelete' = Some(Deleted(schemaTable, TRUE, ""))
    /\ UNCHANGED <<nextUuid, pc, ctx, tempFile, pre, icebergSchemaTables, lastRemap, race>>

\* the keys under the table's prefix are listed and, if there are any, deleted in one
\* request; a request that returns an error leaves the bucket as it was
DeleteSchemaTable ==
    /\ \A v \in Writers : pc[v] = "idle"
    /\ lastRemap = None
    /\ lastDelete = None
    /\ \E schemaTable \in WrittenSchemaTables, listOk \in BOOLEAN, deleteOk \in BOOLEAN :
        LET objectsToDelete == ListObjects(objects, tablePrefix(schemaTable))
        IN IF ~listOk
           THEN /\ objects' = objects
                /\ lastDelete' = Some(Deleted(schemaTable, FALSE, "list"))
           ELSE IF objectsToDelete = {}
           THEN /\ objects' = objects
                /\ lastDelete' = Some(Deleted(schemaTable, FALSE, ""))
           ELSE IF ~deleteOk
           THEN /\ objects' = objects
                /\ lastDelete' = Some(Deleted(schemaTable, TRUE, "delete"))
           ELSE /\ objects' = Remove(objects, objectsToDelete)
                /\ lastDelete' = Some(Deleted(schemaTable, TRUE, ""))
    /\ UNCHANGED <<nextUuid, pc, ctx, tempFile, pre, icebergSchemaTables, lastRemap, race>>

\* the call has returned to its caller; the next operation can start
DeleteSchemaTable_Return ==
    /\ lastDelete # None
    /\ lastDelete' = None
    /\ UNCHANGED <<objects, nextUuid, pc, ctx, tempFile, pre, icebergSchemaTables, lastRemap,
                   race>>

-----------------------------------------------------------------------------
(* SelectRemapperTable *)

ConfigUser == <<"user">>
ConfigEncryptedPassword == <<"secret">>
ConfigDatabase == <<"bemidb">>

QuerySchemaTable(schema, table, alias) == [Schema |-> schema, Table |-> table, Alias |-> alias]

PG_TABLE_PG_STATIO_USER_TABLES == <<"pg_statio_user_tables">>
PG_TABLE_PG_SHADOW == <<"pg_shadow">>
PG_TABLE_PG_ROLES == <<"pg_roles">>
PG_TABLE_PG_SHDESCRIPTION == <<"pg_shdescription">>
PG_TABLE_TABLES == <<"tables">>

\* the references RemapTable is called on
QuerySchemaTables ==
    { QuerySchemaTable(<<>>, <<"t">>, <<"a">>),
      QuerySchemaTable(PG_SCHEMA_PUBLIC, <<"t">>, <<"a">>),
      QuerySchemaTable(PG_SCHEMA_PUBLIC, <<"t", "1">>, <<>>),
      QuerySchemaTable(PG_SCHEMA_PG_CATALOG, <<"t">>, <<"a">>),
      QuerySchemaTable(PG_SCHEMA_PG_CATALOG, PG_TABLE_PG_STATIO_USER_TABLES, <<"a">>),
      QuerySchemaTable(<<>>, PG_TABLE_PG_STATIO_USER_TABLES, <<"a">>),
      QuerySchemaTable(PG_SCHEMA_PG_CATALOG, PG_TABLE_PG_SHADOW, <<"a">>),
      QuerySchemaTable(PG_SCHEMA_INFORMATION_SCHEMA, PG_TABLE_TABLES, <<"a">>),
      QuerySchemaTable(PG_SCHEMA_INFORMATION_SCHEMA, <<"t">>, <<"a">>) }

\* QueryParserTable: the classification of a reference
IsPgStatioUserTablesTable(q) ==
    q.Schema = PG_SCHEMA_PG_CATALOG /\ q.Table = PG_TABLE_PG_STATIO_USER_TABLES

IsPgShadowTable(q) == q.Schema = PG_SCHEMA_PG_CATALOG /\ q.Table = PG_TABLE_PG_SHADOW

IsPgRolesTable(q) == q.Schema = PG_SCHEMA_PG_CATALOG /\ q.Table = PG_TABLE_PG_ROLES

IsPgShdescriptionTable(q) ==
    q.Schema = PG_SCHEMA_PG_CATALOG /\ q.Table = PG_TABLE_PG_SHDESCRIPTION

IsTableFromPgCatalog(q) == q.Schema = PG_SCHEMA_PG_CATALOG

IsInformationSchemaTablesTable(q) ==
    q.Schema = PG_SCHEMA_INFORMATION_SCHEMA /\ q.Table = PG_TABLE_TABLES

IsTableFromInformationSchema(q) == q.Schema = PG_SCHEMA_INFORMATION_SCHEMA

\* QueryParserTable: the nodes it makes
RangeVarNode(q) == [type |-> "range_var", ref |-> q]

MakePgStatioUserTablesNode(alias) ==
    [type |-> "values", view |-> PG_TABLE_PG_STATIO_USER_TABLES, rows |-> {}, alias |-> alias]

MakePgShadowNode(user, encryptedPassword, alias) ==
    [type |-> "values", view |-> PG_TABLE_PG_SHADOW,
     rows |-> {<<user, encryptedPassword>>}, alias |-> alias]

MakePgRolesNode(user, alias) ==
    [type |-> "values", view |-> PG_TABLE_PG_ROLES, rows |-> {<<user>>}, alias |-> alias]

MakePgShdescriptionNode(alias) ==
    [type |-> "values", view |-> PG_TABLE_PG_SHDESCRIPTION, rows |-> {}, alias |-> alias]

MakeInformationSchemaTablesNode(database, schemaTables, alias) ==
    [type |-> "values", view |-> PG_TABLE_TABLES,
     rows |-> { <<database, st.Schema, st.Table>> : st \in schemaTables }, alias |-> alias]

MakeIcebergTableNode(icebergPath) ==
    [type |-> "iceberg_scan", path |-> icebergPath, skipSchemaInference |-> TRUE]

ToIcebergSchemaTable(q) == SchemaTable(q.Schema, q.Table)

\* what a call returns, with the cache it leaves and the reloads it made
Returns(node, cache, reloads) ==
    [result |-> Some(node), cache |-> cache, reloads |-> reloads, panicked |-> FALSE]

\* PanicIfError on a failed listing: the cache keeps its value
Panics(cache, reloads) ==
    [result |-> None, cache |-> cache, reloads |-> reloads, panicked |-> TRUE]

icebergSchemaTableExists(cache, schemaTable) ==
    \E icebergSchemaTable \in cache : icebergSchemaTable = schemaTable

\* a reload that merges the listing into the cache it had
reloadIceberSchemaTables_Merges(cache, listing) == cache \cup Get(listing)

\* reloadIceberSchemaTables, the listing having succeeded: the cache is replaced
reloadIceberSchemaTables(cache, listing) == Get(listing)

\* the information_schema.tables branch that answers from a cache that holds tables
RemapInformationSchemaTables_UsesCache(q, cache, listing) ==
    IF Cardinality(cache) # 0
    THEN Returns(MakeInformationSchemaTablesNode(ConfigDatabase, cache, q.Alias), cache, 0)
    ELSE IF listing = None THEN Panics(cache, 1)
    ELSE LET reloaded == reloadIceberSchemaTables(cache, listing) IN
         IF Cardinality(reloaded) = 0
         THEN Returns(RangeVarNode(q), reloaded, 1)
         ELSE Returns(MakeInformationSchemaTablesNode(ConfigDatabase, reloaded, q.Alias),
                      reloaded, 1)

\* RemapTable, the information_schema.tables branch. listing is what
\* icebergReader.SchemaTables() returns when called: None for an error
RemapInformationSchemaTables(q, cache, listing) ==
    IF listing = None THEN Panics(cache, 1)
    ELSE LET reloaded == reloadIceberSchemaTables(cache, listing) IN
         IF Cardinality(reloaded) = 0
         THEN Returns(RangeVarNode(q), reloaded, 1)
         ELSE Returns(MakeInformationSchemaTablesNode(ConfigDatabase, reloaded, q.Alias),
                      reloaded, 1)

\* the Iceberg table branch without the second existence check
RemapIcebergTable_NoRecheck(q, cache, listing) ==
    LET schema == IF q.Schema = <<>> THEN PG_SCHEMA_PUBLIC ELSE q.Schema
        schemaTable == ToIcebergSchemaTable([q EXCEPT !.Schema = schema])
        scan == MakeIcebergTableNode(IcebergMetadataFilePath(schemaTable))
    IN IF icebergSchemaTableExists(cache, schemaTable)
       THEN Returns(scan, cache, 0)
       ELSE IF listing = None THEN Panics(cache, 1)
       ELSE Returns(scan, reloadIceberSchemaTables(cache, listing), 1)

\* the Iceberg table branch that lists the bucket at every call
RemapIcebergTable_AlwaysReloads(q, cache, listing) ==
    LET schema == IF q.Schema = <<>> THEN PG_SCHEMA_PUBLIC ELSE q.Schema
        schemaTable == ToIcebergSchemaTable([q EXCEPT !.Schema = schema])
        scan == MakeIcebergTableNode(IcebergMetadataFilePath(schemaTable))
    IN IF listing = None THEN Panics(cache, 1)
       ELSE LET reloaded == reloadIceberSchemaTables(cache, listing) IN
            IF ~icebergSchemaTableExists(reloaded, schemaTable)
            THEN Returns(RangeVarNode(q), reloaded, 1)
            ELSE Returns(scan, reloaded, 1)

\* the Iceberg table branch that looks an unqualified reference up as it is written
RemapIcebergTable_NoDefault(q, cache, listing) ==
    LET schemaTable == ToIcebergSchemaTable(q)
        scan == MakeIcebergTableNode(IcebergMetadataFilePath(schemaTable))
    IN IF icebergSchemaTableExists(cache, schemaTable)
       THEN Returns(scan, cache, 0)
       ELSE IF listing = None THEN Panics(cache, 1)
       ELSE LET reloaded == reloadIceberSchemaTables(cache, listing) IN
            IF ~icebergSchemaTableExists(reloaded, schemaTable)
            THEN Returns(RangeVarNode(q), reloaded, 1)
            ELSE Returns(scan, reloaded, 1)

\* RemapTable, the Iceberg table branch
RemapIcebergTable(q, cache, listing) ==
    LET schema == IF q.Schema = <<>> THEN PG_SCHEMA_PUBLIC ELSE q.Schema
        schemaTable == ToIcebergSchemaTable([q EXCEPT !.Schema = schema])
        scan == MakeIcebergTableNode(IcebergMetadataFilePath(schemaTable))
    IN IF icebergSchemaTableExists(cache, schemaTable)
       THEN Returns(scan, cache, 0)
       ELSE IF listing = None THEN Panics(cache, 1)
       ELSE LET reloaded == reloadIceberSchemaTables(cache, listing) IN
            IF ~icebergSchemaTableExists(reloaded, schemaTable)
            THEN Returns(RangeVarNode(q), reloaded, 1)
            ELSE Returns(scan, reloaded, 1)

\* RemapTable with the cache looked up before the reference is classified
RemapTableCall_LookupFirst(q, cache, listing) ==
    IF icebergSchemaTableExists(cache, ToIcebergSchemaTable(q))
    THEN RemapIcebergTable(q, cache, listing)
    ELSE IF IsPgStatioUserTablesTable(q)
    THEN Returns(MakePgStatioUserTablesNode(q.Alias), cache, 0)
    ELSE IF IsPgShadowTable(q)
    THEN Returns(MakePgShadowNode(ConfigUser, ConfigEncryptedPassword, q.Alias), cache, 0)
    ELSE IF IsPgRolesTable(q)
    THEN Returns(MakePgRolesNode(ConfigUser, q.Alias), cache, 0)
    ELSE IF IsPgShdescriptionTable(q)
    THEN Returns(MakePgShdescriptionNode(q.Alias), cache, 0)
    ELSE IF IsTableFromPgCatalog(q)
    THEN Returns(RangeVarNode(q), cache, 0)
    ELSE IF IsInformationSchemaTablesTable(q)
    THEN RemapInformationSchemaTables(q, cache, listing)
    ELSE IF IsTableFromInformationSchema(q)
    THEN Returns(RangeVarNode(q), cache, 0)
    ELSE RemapIcebergTable(q, cache, listing)

\* RemapTable without the two branches that pass a system schema through
RemapTableCall_NoPassThrough(q, cache, listing) ==
    IF IsPgStatioUserTablesTable(q)
    THEN Returns(MakePgStatioUserTablesNode(q.Alias), cache, 0)
    ELSE IF IsPgShadowTable(q)
    THEN Returns(MakePgShadowNode(ConfigUser, ConfigEncryptedPassword, q.Alias), cache, 0)
    ELSE IF IsPgRolesTable(q)
    THEN Returns(MakePgRolesNode(ConfigUser, q.Alias), cache, 0)
    ELSE IF IsPgShdescriptionTable(q)
    THEN Returns(MakePgShdescriptionNode(q.Alias), cache, 0)
    ELSE IF IsInformationSchemaTablesTable(q)
    THEN RemapInformationSchemaTables(q, cache, listing)
    ELSE RemapIcebergTable(q, cache, listing)

\* RemapTable: first match wins
RemapTableCall(q, cache, listing) ==
    IF IsPgStatioUserTablesTable(q)
    THEN Returns(MakePgStatioUserTablesNode(q.Alias), cache, 0)
    ELSE IF IsPgShadowTable(q)
    THEN Returns(MakePgShadowNode(ConfigUser, ConfigEncryptedPassword, q.Alias), cache, 0)
    ELSE IF IsPgRolesTable(q)
    THEN Returns(MakePgRolesNode(ConfigUser, q.Alias), cache, 0)
    ELSE IF IsPgShdescriptionTable(q)
    THEN Returns(MakePgShdescriptionNode(q.Alias), cache, 0)
    ELSE IF IsTableFromPgCatalog(q)
    THEN Returns(RangeVarNode(q), cache, 0)
    ELSE IF IsInformationSchemaTablesTable(q)
    THEN RemapInformationSchemaTables(q, cache, listing)
    ELSE IF IsTableFromInformationSchema(q)
    THEN Returns(RangeVarNode(q), cache, 0)
    ELSE RemapIcebergTable(q, cache, listing)

\* one RemapTable call on the reference q. A commit may stop after any of its steps, so
\* every bucket a call can meet is met between commits, where the calls are taken
RemapTable ==
    /\ \A v \in Writers : pc[v] = "idle"
    /\ lastRemap = None
    /\ lastDelete = None
    /\ \E failing \in ListingFailures :
        \E listing \in {IcebergSchemaTablesOrError(objects, failing)},
           failed \in {FailedListing(objects, failing)} :
            \E q \in QuerySchemaTables :
                \E call \in {RemapTableCall(q, icebergSchemaTables, listing)} :
                    /\ icebergSchemaTables' = call.cache
                    /\ lastRemap' = Some([q |-> q, result |-> call.result,
                                          reloads |-> call.reloads,
                                          panicked |-> call.panicked,
                                          cacheBefore |-> icebergSchemaTables,
                                          failedListing |-> IF call.reloads = 0 THEN None
                                                            ELSE failed])
    /\ UNCHANGED <<objects, nextUuid, pc, ctx, tempFile, pre, lastDelete, race>>

\* the caller has the node of the call; the next operation can start
RemapTable_Return ==
    /\ lastRemap # None
    /\ lastRemap' = None
    /\ UNCHANGED <<objects, nextUuid, pc, ctx, tempFile, pre, icebergSchemaTables, lastDelete, race>>

\* no two calls run at once
NoRace == None

-----------------------------------------------------------------------------
(* The specification *)

\* the bucket after the commit of rows to schemaTable that draws the n-th uuid and whose
\* steps all succeed
CommittedBucket(objs, schemaTable, rows, n) ==
    LET uuid == UuidString(n)
        metadataDirPath == CreateMetadataDir(schemaTable)
        fileKey == CreateDataDir(schemaTable) \o <<SLASH>> \o ParquetFileName(uuid)
        withData == WriteParquetFile(objs, fileKey, rows)
        parquetFile == [Uuid |-> uuid, Path |-> fileKey,
                        Size |-> ContentLength(withData[fileKey]),
                        RecordCount |-> Len(rows),
                        Stats |-> ReadParquetStats(withData[fileKey])]
        manifestFile == [SnapshotId |-> SnapshotIdOf(n),
                         Path |-> metadataDirPath \o <<SLASH>> \o ManifestFileName(parquetFile)]
        withManifest ==
            uploadFile(withData, manifestFile.Path,
                       WriteManifestFile(fileSystemPrefix, parquetFile, manifestFile.SnapshotId),
                       TRUE)
        manifestListFile ==
            [Path |-> metadataDirPath \o <<SLASH>>
                        \o ManifestListFileName(parquetFile, manifestFile)]
        withList ==
            uploadFile(withManifest, manifestListFile.Path,
                       WriteManifestListFile(fileSystemPrefix, parquetFile, manifestFile), TRUE)
        metadataFile ==
            [Version |-> MetadataVersion,
             Path |-> metadataDirPath \o <<SLASH>> \o MetadataFileName(MetadataVersion)]
        withMetadata ==
            uploadFile(withList, metadataFile.Path,
                       WriteMetadataFile(fileSystemPrefix, parquetFile, manifestFile,
                                         manifestListFile), TRUE)
    IN uploadFile(withMetadata, metadataDirPath \o <<SLASH>> \o VERSION_HINT_FILE_NAME,
                  WriteVersionHintFile(metadataFile), TRUE)

\* the buckets the server is started on: an empty one, one that holds the snapshot an
\* earlier commit to public.t has left, and one that holds the snapshots of two tables of
\* a schema named pg_catalog, one of them named as the I/O-statistics view
InitialBuckets ==
    { << >>,
      CommittedBucket(<< >>, SchemaTable(PG_SCHEMA_PUBLIC, <<"t">>), RowsOf(1), 0),
      CommittedBucket(
          CommittedBucket(<< >>, SchemaTable(PG_SCHEMA_PG_CATALOG, <<"t">>), RowsOf(1), 0),
          SchemaTable(PG_SCHEMA_PG_CATALOG, PG_TABLE_PG_STATIO_USER_TABLES), RowsOf(1), 9) }

\* the bucket is listed by NewSelectRemapperTable; no commit is under way
Init ==
    /\ objects \in InitialBuckets
    /\ nextUuid = 0
    /\ pc = [w \in Writers |-> "idle"]
    /\ ctx = [w \in Writers |-> NoCtx]
    /\ tempFile = [w \in Writers |-> None]
    /\ pre = [w \in Writers |-> << >>]
    /\ icebergSchemaTables = IcebergSchemaTables(objects)
    /\ lastRemap = None
    /\ lastDelete = None
    /\ race = NoRace

Commit(w) ==
    \/ Write_Begin(w)
    \/ CreateParquet_Open(w)
    \/ CreateParquet_Write(w)
    \/ CreateParquet_Head(w)
    \/ CreateParquet_Stats(w)
    \/ CreateManifest_Temp(w)
    \/ CreateManifest_Write(w)
    \/ CreateManifest_Upload(w)
    \/ CreateManifestList_Temp(w)
    \/ CreateManifestList_Write(w)
    \/ CreateManifestList_Upload(w)
    \/ CreateMetadata_Temp(w)
    \/ CreateMetadata_Write(w)
    \/ CreateMetadata_Upload(w)
    \/ CreateVersionHint_Temp(w)
    \/ CreateVersionHint_Write(w)
    \/ CreateVersionHint_Upload(w)
    \/ Write_Return(w)

Next ==
    \/ \E w \in Writers : Commit(w)
    \/ DeleteSchemaTable
    \/ DeleteSchemaTable_Return
    \/ RemapTable
    \/ RemapTable_Return

Spec == Init /\ [][Next]_vars

\* the commit invocations of two connections
ConcurrentWriters == {1, 2}

\* two connections, no commit under way, an empty bucket
InitConcurrent ==
    /\ objects = << >>
    /\ nextUuid = 0
    /\ pc = [w \in ConcurrentWriters |-> "idle"]
    /\ ctx = [w \in ConcurrentWriters |-> NoCtx]
    /\ tempFile = [w \in ConcurrentWriters |-> None]
    /\ pre = [w \in ConcurrentWriters |-> << >>]
    /\ icebergSchemaTables = {}
    /\ lastRemap = None
    /\ lastDelete = None
    /\ race = NoRace

CommitConcurrent(w) ==
    \/ Write_BeginConcurrent(w)
    \/ CreateParquet_Open(w)
    \/ CreateParquet_Write(w)
    \/ CreateParquet_Head(w)
    \/ CreateParquet_Stats(w)
    \/ CreateManifest_Temp(w)
    \/ CreateManifest_Write(w)
    \/ CreateManifest_Upload(w)
    \/ CreateManifestList_Temp(w)
    \/ CreateManifestList_Write(w)
    \/ CreateManifestList_Upload(w)
    \/ CreateMetadata_Temp(w)
    \/ CreateMetadata_Write(w)
    \/ CreateMetadata_Upload(w)
    \/ CreateVersionHint_Temp(w)
    \/ CreateVersionHint_Write(w)
    \/ CreateVersionHint_Upload(w)

NextConcurrent == \E w \in ConcurrentWriters : CommitConcurrent(w)

\* the steps of the two commits interleave in every order
SpecConcurrent == InitConcurrent /\ [][NextConcurrent]_vars

-----------------------------------------------------------------------------
(* Two RemapTable calls at once on one remapper: one reloads the cached enumeration,
   the other looks a table up in it. The cache is a slice, a header of several words
   (pointer to the array, length) that the reload assigns and the lookup ranges over
   without any synchronisation. The words are stored and loaded one by one, in an order
   the build chooses. *)

\* the order in which ListObjectsV2 returns the directories, schema by schema
ListingOrder ==
    << SchemaTable(PG_SCHEMA_PG_CATALOG, PG_TABLE_PG_STATIO_USER_TABLES),
       SchemaTable(PG_SCHEMA_PG_CATALOG, <<"t">>),
       SchemaTable(PG_SCHEMA_PUBLIC, <<"t">>),
       SchemaTable(PG_SCHEMA_PUBLIC, <<"t", "1">>) >>

\* the slice that holds the enumeration: its tables in the order they were listed
InListingOrder(tables) == SelectSeq(ListingOrder, LAMBDA st : st \in tables)

\* the tables a slice holds
ElementsOf(array) == { array[i] : i \in DOMAIN array }

\* the buckets a reload may list
RaceBuckets ==
    InitialBuckets
        \cup { CommittedBucket(<< >>, SchemaTable(PG_SCHEMA_PUBLIC, <<"t", "1">>), RowsOf(1), 0),
               CommittedBucket(CommittedBucket(<< >>, SchemaTable(PG_SCHEMA_PUBLIC, <<"t">>), RowsOf(1), 0),
                               SchemaTable(PG_SCHEMA_PUBLIC, <<"t", "1">>), RowsOf(1), 1) }

\* the arrays on the heap: the one the cache pointed to before the reload and the one the
\* reload's listing built
ArrayAt(ptr) == IF ptr = "before" THEN race.before ELSE Get(race.after)

\* the remapper holds the listing of an earlier bucket; one call is about to reload,
\* the other is about to look target up
InitRace ==
    /\ objects \in RaceBuckets
    /\ nextUuid = 0
    /\ pc = [w \in Writers |-> "idle"]
    /\ ctx = [w \in Writers |-> NoCtx]
    /\ tempFile = [w \in Writers |-> None]
    /\ pre = [w \in Writers |-> << >>]
    /\ icebergSchemaTables \in { IcebergSchemaTables(bucket) : bucket \in RaceBuckets }
    /\ lastRemap = None
    /\ lastDelete = None
    /\ \E target \in WrittenSchemaTables :
          race = [reload |-> "list", lookup |-> "call", target |-> target,
                  before |-> InListingOrder(icebergSchemaTables), after |-> None,
                  ptr |-> "before", len |-> Len(InListingOrder(icebergSchemaTables)),
                  loadedPtr |-> None, loadedLen |-> None,
                  view |-> None, overrun |-> FALSE, exists |-> None]

\* icebergReader.SchemaTables() and PanicIfError of the reloading call
Reload_List ==
    /\ race.reload = "list"
    /\ \E failing \in ListingFailures :
        \E listing \in {IcebergSchemaTablesOrError(objects, failing)} :
            IF listing = None
            THEN race' = [race EXCEPT !.reload = "panicked"]
            ELSE race' = [race EXCEPT !.reload = "store",
                                      !.after = Some(InListingOrder(Get(listing)))]
    /\ UNCHANGED <<objects, nextUuid, pc, ctx, tempFile, pre, icebergSchemaTables, lastRemap, lastDelete>>

\* the assignment to remapper.icebergSchemaTables has been carried out once both words
\* of the header are stored
StoredWord(position) ==
    IF race.reload = "store" THEN position ELSE "done"

\* the reloading call stores the pointer word of the header
Reload_StorePtr ==
    /\ race.reload \in {"store", "stored_len"}
    /\ race' = [race EXCEPT !.ptr = "after", !.reload = StoredWord("stored_ptr")]
    /\ icebergSchemaTables' = IF race.reload = "stored_len"
                              THEN ElementsOf(Get(race.after)) ELSE icebergSchemaTables
    /\ UNCHANGED <<objects, nextUuid, pc, ctx, tempFile, pre, lastRemap, lastDelete>>

\* the reloading call stores the length word of the header
Reload_StoreLen ==
    /\ race.reload \in {"store", "stored_ptr"}
    /\ race' = [race EXCEPT !.len = Len(Get(race.after)), !.reload = StoredWord("stored_len")]
    /\ icebergSchemaTables' = IF race.reload = "stored_ptr"
                              THEN ElementsOf(Get(race.after)) ELSE icebergSchemaTables
    /\ UNCHANGED <<objects, nextUuid, pc, ctx, tempFile, pre, lastRemap, lastDelete>>

\* the range statement has copied the header once both words are loaded
LoadedWord(position) ==
    IF race.lookup = "call" THEN position ELSE "loaded"

\* the looking-up call loads the pointer word of the header
Lookup_LoadPtr ==
    /\ race.lookup \in {"call", "loaded_len"}
    /\ race' = [race EXCEPT !.loadedPtr = Some(race.ptr), !.lookup = LoadedWord("loaded_ptr")]
    /\ UNCHANGED <<objects, nextUuid, pc, ctx, tempFile, pre, icebergSchemaTables, lastRemap, lastDelete>>

\* the looking-up call loads the length word of the header
Lookup_LoadLen ==
    /\ race.lookup \in {"call", "loaded_ptr"}
    /\ race' = [race EXCEPT !.loadedLen = Some(race.len), !.lookup = LoadedWord("loaded_len")]
    /\ UNCHANGED <<objects, nextUuid, pc, ctx, tempFile, pre, icebergSchemaTables, lastRemap, lastDelete>>

\* the loop of icebergSchemaTableExists over the header it loaded: the elements of the
\* array up to the loaded length. A loaded length beyond the array makes the loop read
\* past the array, where anything may be found
Lookup_Range ==
    /\ race.lookup = "loaded"
    /\ LET array == ArrayAt(Get(race.loadedPtr))
           length == Get(race.loadedLen)
           view == SubSeq(array, 1, IF length < Len(array) THEN length ELSE Len(array))
           overrun == length > Len(array)
       IN \E exists \in BOOLEAN :
            /\ (race.target \in ElementsOf(view)) => exists
            /\ (race.target \notin ElementsOf(view) /\ ~overrun) => ~exists
            /\ race' = [race EXCEPT !.lookup = "returned", !.view = Some(view),
                                    !.overrun = overrun, !.exists = Some(exists)]
    /\ UNCHANGED <<objects, nextUuid, pc, ctx, tempFile, pre, icebergSchemaTables, lastRemap, lastDelete>>

NextRace ==
    \/ Reload_List
    \/ Reload_StorePtr
    \/ Reload_StoreLen
    \/ Lookup_LoadPtr
    \/ Lookup_LoadLen
    \/ Lookup_Range

\* the steps of the two calls interleave in every order
SpecRace == InitRace /\ [][NextRace]_vars

-----------------------------------------------------------------------------
(* Claims about RemapTable *)

\* the call that has just returned
Call == Get(lastRemap)

Called == lastRemap # None

\* the pair a reference names as written
NamedPair(q) == SchemaTable(q.Schema, q.Table)

\* the pair looked up for a reference that reaches the Iceberg table branch
LookedUpPair(q) ==
    SchemaTable(IF q.Schema = <<>> THEN PG_SCHEMA_PUBLIC ELSE q.Schema, q.Table)

\* the references that reach the Iceberg table branch
IsIcebergReference(q) ==
    q.Schema \notin {PG_SCHEMA_PG_CATALOG, PG_SCHEMA_INFORMATION_SCHEMA}

rootURI == <<"s", "3", ":", "/", "/", "bucket", "/", "iceberg">>

\* rootURI()/<schema>/<table>/metadata/v1.metadata.json
ExpectedScanPath(schemaTable) ==
    rootURI \o <<"/">> \o schemaTable.Schema \o <<"/">> \o schemaTable.Table
            \o <<"/", "metadata", "/", "v", "1", ".metadata.json">>

IsScanOf(result, schemaTable) ==
    /\ result # None
    /\ Get(result).type = "iceberg_scan"
    /\ Get(result).path = ExpectedScanPath(schemaTable)

IsUnmodified(result, q) == result = Some([type |-> "range_var", ref |-> q])

\* the tables with at least one key under their prefix
BackendTables ==
    { st \in WrittenSchemaTables \cup { LookedUpPair(q) : q \in QuerySchemaTables } :
        \E k \in DOMAIN objects :
            HasPrefix(k, IcebergPath \o <<"/">> \o st.Schema \o <<"/">> \o st.Table \o <<"/">>) }

\* C1 as stated: for every pair in the cache, RemapTable on a reference naming the pair
\* returns a scan node whose path is rootURI()/<schema>/<table>/metadata/v1.metadata.json
C1_EveryCachedPairScanned ==
    (Called /\ NamedPair(Call.q) \in Call.cacheBefore)
        => IsScanOf(Call.result, NamedPair(Call.q))

\* C1 amended: for every pair in the cache whose schema is neither pg_catalog nor
\* information_schema, RemapTable on a reference naming the pair returns a scan node
\* whose path is rootURI()/<schema>/<table>/metadata/v1.metadata.json
C1_CachedIcebergPairScanned ==
    (Called /\ NamedPair(Call.q) \in Call.cacheBefore /\ IsIcebergReference(Call.q))
        => IsScanOf(Call.result, NamedPair(Call.q))

C1_Witness ==
    /\ Called
    /\ NamedPair(Call.q) = SchemaTable(PG_SCHEMA_PUBLIC, <<"t">>)
    /\ NamedPair(Call.q) \in Call.cacheBefore
    /\ IsScanOf(Call.result, NamedPair(Call.q))

\* C2: a RemapTable call on an Iceberg table reference absent from the cache makes exactly
\* one reload; when the listing succeeds, the call returns the reference unmodified if the
\* table is absent from the reloaded cache and the scan node if it is present
C2_OneReloadOnMiss ==
    (Called /\ IsIcebergReference(Call.q) /\ LookedUpPair(Call.q) \notin Call.cacheBefore)
        => /\ Call.reloads = 1
           /\ ~Call.panicked =>
                IF LookedUpPair(Call.q) \in icebergSchemaTables
                THEN IsScanOf(Call.result, LookedUpPair(Call.q))
                ELSE IsUnmodified(Call.result, Call.q)

C2_Witness ==
    /\ Called
    /\ IsIcebergReference(Call.q)
    /\ LookedUpPair(Call.q) \notin Call.cacheBefore
    /\ Call.cacheBefore # {}
    /\ Call.reloads = 1
    /\ IsScanOf(Call.result, LookedUpPair(Call.q))

\* C3: after a reload whose listing succeeded the cache is exactly the set of tables the
\* bucket holds at that time, and an Iceberg table reference is rewritten to a scan node
\* exactly when its table is in that set
C3_ReloadReplaces ==
    (Called /\ Call.reloads >= 1 /\ ~Call.panicked)
        => /\ icebergSchemaTables = BackendTables
           /\ IsIcebergReference(Call.q) =>
                (IsScanOf(Call.result, LookedUpPair(Call.q))
                    <=> LookedUpPair(Call.q) \in BackendTables)
           /\ IsIcebergReference(Call.q) /\ LookedUpPair(Call.q) \notin BackendTables
                => IsUnmodified(Call.result, Call.q)

\* a reload that drops a table removed from the bucket and picks up a table added to it
C3_Witness ==
    /\ Called
    /\ Call.reloads = 1
    /\ ~Call.panicked
    /\ Call.cacheBefore \ icebergSchemaTables # {}
    /\ icebergSchemaTables \ Call.cacheBefore # {}
    /\ IsScanOf(Call.result, LookedUpPair(Call.q))

-----------------------------------------------------------------------------
(* Claims about the commit *)

Uuids == { UuidString(n) : n \in 0..MaxUuid }

TableOf(w) == Get(ctx[w].schemaTable)

FailedAt(w, labels) == pc[w] = "failed" /\ ctx[w].failedAt # None /\ Get(ctx[w].failedAt) \in labels

\* <root>/<schema>/<table>/metadata and <root>/<schema>/<table>/data
MetadataDirOf(st) == IcebergPath \o <<"/">> \o st.Schema \o <<"/">> \o st.Table \o <<"/", "metadata">>

DataDirOf(st) == IcebergPath \o <<"/">> \o st.Schema \o <<"/">> \o st.Table \o <<"/", "data">>

VersionHintKey(st) == MetadataDirOf(st) \o <<"/", "version-hint.text">>

MetadataKey(st) == MetadataDirOf(st) \o <<"/", "v", "1", ".metadata.json">>

\* the key a reader opens for a path written into an artifact
Deref(uri) == SubSeq(uri, Len(<<"s", "3", ":", "/", "/", "bucket", "/">>) + 1, Len(uri))

Holds(objs, key, kind) ==
    key \in DOMAIN objs /\ objs[key].kind = kind /\ objs[key].complete

\* a reader walks from the version pointer of table st to the data file uuid with rows
ReadableChain(objs, st, uuid, rows) ==
    /\ Holds(objs, VersionHintKey(st), "version_hint")
    /\ objs[VersionHintKey(st)].version = 1
    /\ Holds(objs, MetadataKey(st), "metadata")
    /\ LET listKey == Deref(objs[MetadataKey(st)].manifestListPath) IN
       /\ Holds(objs, listKey, "manifest_list")
       /\ LET manifestKey == Deref(objs[listKey].manifestPath) IN
          /\ Holds(objs, manifestKey, "manifest")
          /\ manifestKey = MetadataDirOf(st) \o <<"/">> \o uuid \o <<"-m", "0", ".avro">>
          /\ listKey = MetadataDirOf(st) \o <<"/", "snap-">>
                            \o FormatInt(objs[manifestKey].snapshotId)
                            \o <<"-", "0", "-">> \o uuid \o <<".avro">>
          /\ objs[listKey].snapshotId = objs[manifestKey].snapshotId
          /\ LET dataKey == Deref(objs[manifestKey].dataFilePath) IN
             /\ Holds(objs, dataKey, "data")
             /\ dataKey = DataDirOf(st) \o <<"/", "0", "0", "0", "0", "0", "-", "0", "-">>
                                         \o uuid \o <<".parquet">>
             /\ objs[dataKey].rows = rows
             /\ objs[manifestKey].recordCount = Len(rows)

\* C4: after a commit whose steps all succeeded, the chain walks from the version pointer
\* (version 1) through v1.metadata.json, snap-<snapshotId>-0-<uuid>, <uuid>-m0 to the data
\* file 00000-0-<uuid> of this commit, and the record count of the data file descriptor is
\* the number of rows the row producer returned
C4_ChainWalk ==
    \A w \in Writers :
        pc[w] = "done" =>
            /\ ReadableChain(objects, TableOf(w), Get(ctx[w].uuid), Get(ctx[w].rows))
            /\ Get(ctx[w].parquetFile).RecordCount = Len(Get(ctx[w].rows))
            /\ Get(ctx[w].parquetFile).Uuid = Get(ctx[w].uuid)

\* a commit does what CommittedBucket says
CommittedBucketIsTheCommit ==
    \A w \in Writers :
        pc[w] = "done" =>
            objects = CommittedBucket(pre[w], TableOf(w), Get(ctx[w].rows), nextUuid)

\* a commit of one row that replaced an earlier snapshot of the table
C4_Witness ==
    \E w \in Writers :
        /\ pc[w] = "done"
        /\ Len(Get(ctx[w].rows)) = 1
        /\ MetadataKey(TableOf(w)) \in DOMAIN pre[w]

\* this commit has stored a manifest list
NewListStored(w) ==
    \E k \in DOMAIN objects \ DOMAIN pre[w] : objects[k].kind = "manifest_list"

\* the key holds what it held when the commit started, or nothing if it held nothing
KeptFromBefore(w, key) ==
    IF key \in DOMAIN pre[w]
    THEN key \in DOMAIN objects /\ objects[key] = pre[w][key]
    ELSE key \notin DOMAIN objects

\* C5: a failed upload of the manifest list stores no manifest list, and as long as the
\* commit has stored no manifest list, v1.metadata.json and the version pointer of the
\* table are what they were when the commit started: absent if the table had none
C5_ListUploadFails ==
    \A w \in Writers :
        pc[w] # "idle" =>
            /\ FailedAt(w, {"list_upload"}) => ~NewListStored(w)
            /\ ~NewListStored(w) =>
                /\ KeptFromBefore(w, MetadataKey(TableOf(w)))
                /\ KeptFromBefore(w, VersionHintKey(TableOf(w)))

\* the upload of the manifest list failed in a commit to a table that had a snapshot
C5_Witness ==
    \E w \in Writers :
        /\ FailedAt(w, {"list_upload"})
        /\ VersionHintKey(TableOf(w)) \in DOMAIN pre[w]
        /\ MetadataKey(TableOf(w)) \in DOMAIN objects

\* C6 as stated: after a commit to a table with a complete snapshot has failed at any of
\* its steps, a reader opening v1.metadata.json still reaches the manifest list, the
\* manifest and the data file of that previous snapshot
C6_PreviousSnapshotReadable ==
    \A w \in Writers : \A uuid \in Uuids, rows \in RowSets :
        (pc[w] = "failed" /\ ReadableChain(pre[w], TableOf(w), uuid, rows))
            => ReadableChain(objects, TableOf(w), uuid, rows)

StagesOf(step) == {step \o "_temp", step \o "_write", step \o "_upload"}

FromManifest == StagesOf("manifest") \cup StagesOf("list") \cup StagesOf("metadata")
                    \cup StagesOf("hint") \cup {"done"}

FromList == StagesOf("list") \cup StagesOf("metadata") \cup StagesOf("hint") \cup {"done"}

FromMetadata == StagesOf("metadata") \cup StagesOf("hint") \cup {"done"}

FromHint == StagesOf("hint") \cup {"done"}

\* the descriptor has been returned and the object it names is in the bucket
Returned(descriptor, kind) ==
    /\ descriptor # None
    /\ Holds(objects, Get(descriptor).Path, kind)

\* C7: a commit is at the manifest step only with the data file stored and its descriptor
\* returned, at the manifest list step only with the manifest stored, at the metadata step
\* only with the manifest list stored, at the version pointer step only with
\* v1.metadata.json stored
C7_StepsSequential ==
    \A w \in Writers :
        /\ pc[w] \in FromManifest => Returned(ctx[w].parquetFile, "data")
        /\ pc[w] \in FromList => Returned(ctx[w].manifestFile, "manifest")
        /\ pc[w] \in FromMetadata => Returned(ctx[w].manifestListFile, "manifest_list")
        /\ pc[w] \in FromHint =>
            /\ Returned(ctx[w].metadataFile, "metadata")
            /\ Get(ctx[w].metadataFile).Path = MetadataKey(TableOf(w))
            /\ objects[MetadataKey(TableOf(w))].manifestListPath
                   = <<"s", "3", ":", "/", "/", "bucket", "/">> \o Get(ctx[w].manifestListFile).Path

\* the version pointer is about to be uploaded
C7_Witness ==
    \E w \in Writers : pc[w] = "hint_upload" /\ Returned(ctx[w].metadataFile, "metadata")

\* the step stores an object at key, or replaces the object at key by another
Written(key) ==
    /\ key \in DOMAIN objects'
    /\ key \notin DOMAIN objects \/ objects'[key] # objects[key]

\* the object stored at key is the content of a scratch file
FromScratchFile(key) == \E w \in Writers : tempFile[w] = Some(objects'[key])

\* C8 as stated: every object a step stores, the data file too, is the complete content of
\* a local scratch file
C8_AllFromScratchFiles ==
    [][\A key \in DOMAIN objects' :
          Written(key) => objects'[key].complete /\ FromScratchFile(key)]_vars

\* C8 amended: every object a step stores is complete; the manifest, the manifest list, the
\* metadata and the version pointer are the content of a local scratch file, the data file
\* is written through a file writer opened on its key and has no scratch file
C8_CompleteObjects ==
    [][\A key \in DOMAIN objects' :
          Written(key) =>
              /\ objects'[key].complete
              /\ objects'[key].kind # "data" => FromScratchFile(key)
              /\ objects'[key].kind = "data" => \A w \in Writers : tempFile[w] = None]_vars

\* a commit has stored its five artifacts
C8_Witness ==
    \E w \in Writers :
        /\ pc[w] = "done"
        /\ \A kind \in {"data", "manifest", "manifest_list", "metadata", "version_hint"} :
              \E key \in DOMAIN objects : Holds(objects, key, kind)

\* the keys that hold something else than when the commit started
ChangedKeys(w) ==
    { key \in DOMAIN objects : key \notin DOMAIN pre[w] \/ objects[key] # pre[w][key] }

\* the artifacts of the steps that returned their descriptor
CompletedArtifacts(w) ==
    { Get(d).Path : d \in { x \in {ctx[w].parquetFile, ctx[w].manifestFile,
                                   ctx[w].manifestListFile, ctx[w].metadataFile} :
                              x # None /\ Get(x).Path # None } }

AfterDataFileStored == {"parquet_head", "parquet_stats"}

\* C9 as stated: after a commit has failed, whatever the step and the failure, the bucket
\* differs from what it was only by the artifacts of the steps completed before
C9_FailedStepLeavesNothing ==
    \A w \in Writers :
        pc[w] = "failed" =>
            /\ DOMAIN pre[w] \subseteq DOMAIN objects
            /\ ChangedKeys(w) = CompletedArtifacts(w)

\* C9 amended: the same, except after a failure of the size lookup or of the statistics
\* read-back of CreateParquet: the data file was stored before them and stays
C9_FailedStepLeavesNothingButDataFile ==
    \A w \in Writers :
        pc[w] = "failed" =>
            /\ DOMAIN pre[w] \subseteq DOMAIN objects
            /\ ChangedKeys(w) =
                  IF FailedAt(w, AfterDataFileStored)
                  THEN {Get(ctx[w].fileKey)}
                  ELSE CompletedArtifacts(w)

\* the upload of the manifest list failed: the data file and the manifest stay
C9_Witness ==
    \E w \in Writers :
        /\ FailedAt(w, {"list_upload"})
        /\ Cardinality(ChangedKeys(w)) = 2

ScratchFileScope ==
    { step \o stage : step \in {"manifest", "list", "metadata", "hint"},
                      stage \in {"_write", "_upload"} }

\* C10: outside CreateManifest, CreateManifestList, CreateMetadata and CreateVersionHint,
\* between the creation of the scratch file and the return, no scratch file exists:
\* the scratch file is deleted on every return
C10_ScratchFilesDeleted ==
    \A w \in Writers : pc[w] \notin ScratchFileScope => tempFile[w] = None

\* CreateMetadata has returned after a failed upload, or CreateVersionHint after a failed
\* encoding, and the scratch file is gone
C10_Witness ==
    \E w \in Writers :
        /\ FailedAt(w, {"metadata_upload", "hint_write"})
        /\ tempFile[w] = None

-----------------------------------------------------------------------------
(* Claims about the paths shared by the commit and the rewriter *)

\* the call has returned a scan node
ScanReturned == Called /\ Call.result # None /\ Get(Call.result).type = "iceberg_scan"

\* C11: for every SchemaTable, the metadata directory of CreateMetadataDir followed by
\* /v1.metadata.json, under the file-system prefix, is the path IcebergMetadataFilePath puts
\* into the scan node; the commit stores its metadata file at that location, and a scan node
\* returned for a table that has a version pointer names the object that holds its metadata
C11_CommittedWhereScanned ==
    /\ \A st \in WrittenSchemaTables :
          fileSystemPrefix \o CreateMetadataDir(st) \o <<"/">> \o MetadataFileName(MetadataVersion)
              = IcebergMetadataFilePath(st)
    /\ \A w \in Writers :
          pc[w] \in FromHint =>
              /\ fileSystemPrefix \o Get(ctx[w].metadataFile).Path
                     = IcebergMetadataFilePath(TableOf(w))
              /\ Holds(objects, Deref(IcebergMetadataFilePath(TableOf(w))), "metadata")
    /\ (ScanReturned /\ VersionHintKey(LookedUpPair(Call.q)) \in DOMAIN objects)
          => /\ Get(Call.result).path = IcebergMetadataFilePath(LookedUpPair(Call.q))
             /\ Holds(objects, Deref(Get(Call.result).path), "metadata")

\* a table committed in this run is resolved to the metadata file the commit has written
C11_Witness ==
    /\ ScanReturned
    /\ Holds(objects, Deref(Get(Call.result).path), "metadata")
    /\ objects[Deref(Get(Call.result).path)].snapshotId # SnapshotIdOf(0)

-----------------------------------------------------------------------------
(* Claims about the classification of a reference *)

\* the reference with the schema public written out
Qualified(q) == [q EXCEPT !.Schema = PG_SCHEMA_PUBLIC]

\* what the listing of the call returned: an error if the call panicked, and the tables of
\* the bucket otherwise
ListingOfCall == IF Call.panicked THEN None ELSE Some(IcebergSchemaTables(objects))

\* both calls return the same scan node, or each its own reference unmodified, or nothing
SameNode(a, qa, b, qb) ==
    \/ a = None /\ b = None
    \/ /\ a # None /\ b # None
       /\ \/ Get(a).type = "iceberg_scan" /\ a = b
          \/ IsUnmodified(a, qa) /\ IsUnmodified(b, qb)

\* C12: RemapTable on the unqualified reference t returns what RemapTable on public.t
\* returns from the same cache and the same bucket: the same node (the scan node of the same
\* path, or the reference unmodified), after as many reloads, leaving the same cache
C12_UnqualifiedIsPublic ==
    (Called /\ Call.q.Schema = <<>>) =>
        LET other == RemapTableCall(Qualified(Call.q), Call.cacheBefore, ListingOfCall)
        IN /\ other.reloads = Call.reloads
           /\ other.cache = icebergSchemaTables
           /\ other.panicked = Call.panicked
           /\ SameNode(Call.result, Call.q, other.result, Qualified(Call.q))

\* an unqualified reference rewritten to the scan node of public.t after a reload
C12_Witness ==
    /\ ScanReturned
    /\ Call.q.Schema = <<>>
    /\ Call.reloads = 1
    /\ IsScanOf(Call.result, SchemaTable(PG_SCHEMA_PUBLIC, Call.q.Table))

\* the call made no reload and left the cache as it was
NoReload == Call.reloads = 0 /\ ~Call.panicked /\ icebergSchemaTables = Call.cacheBefore

\* C13: RemapTable on pg_catalog.pg_statio_user_tables returns the synthesized result of no
\* rows under the alias of the reference, whatever the cache holds, makes no reload and
\* leaves the cache as it was
C13_StatioAlwaysEmpty ==
    (Called /\ Call.q.Schema = PG_SCHEMA_PG_CATALOG
            /\ Call.q.Table = PG_TABLE_PG_STATIO_USER_TABLES)
        => /\ NoReload
           /\ Call.result # None
           /\ Get(Call.result).type = "values"
           /\ Get(Call.result).view = PG_TABLE_PG_STATIO_USER_TABLES
           /\ Get(Call.result).rows = {}
           /\ Get(Call.result).alias = Call.q.Alias

\* the view is resolved while the cache holds a table named as the view
C13_Witness ==
    /\ Called
    /\ Call.q = QuerySchemaTable(PG_SCHEMA_PG_CATALOG, PG_TABLE_PG_STATIO_USER_TABLES, <<"a">>)
    /\ NamedPair(Call.q) \in Call.cacheBefore
    /\ Get(Call.result).rows = {}

\* C17: a RemapTable call on information_schema.tables makes exactly one reload whatever
\* the cache held; when the listing succeeds the reference is returned unmodified if the
\* reloaded cache is empty, and otherwise the result is a row set with exactly one row
\* (configured database, schema, table) per SchemaTable of the reloaded cache
C17_InformationSchemaTablesReloads ==
    (Called /\ Call.q.Schema = PG_SCHEMA_INFORMATION_SCHEMA /\ Call.q.Table = PG_TABLE_TABLES)
        => /\ Call.reloads = 1
           /\ ~Call.panicked =>
                /\ icebergSchemaTables = BackendTables
                /\ IF icebergSchemaTables = {}
                   THEN IsUnmodified(Call.result, Call.q)
                   ELSE /\ Get(Call.result).type = "values"
                        /\ Get(Call.result).rows
                              = { <<ConfigDatabase, st.Schema, st.Table>> :
                                    st \in icebergSchemaTables }
                        /\ Cardinality(Get(Call.result).rows)
                              = Cardinality(icebergSchemaTables)

\* the view is resolved from a cache that held other tables than the bucket
C17_Witness ==
    /\ Called
    /\ Call.q.Schema = PG_SCHEMA_INFORMATION_SCHEMA /\ Call.q.Table = PG_TABLE_TABLES
    /\ Call.reloads = 1 /\ ~Call.panicked
    /\ Call.cacheBefore # {}
    /\ Call.cacheBefore # icebergSchemaTables
    /\ Get(Call.result).type = "values"
    /\ Cardinality(Get(Call.result).rows) = 2

\* the four views that are synthesized
SynthesizedViews ==
    {PG_TABLE_PG_STATIO_USER_TABLES, PG_TABLE_PG_SHADOW, PG_TABLE_PG_ROLES,
     PG_TABLE_PG_SHDESCRIPTION}

\* a reference to a system schema that no earlier branch rewrites
IsPassedThrough(q) ==
    \/ q.Schema = PG_SCHEMA_PG_CATALOG /\ q.Table \notin SynthesizedViews
    \/ q.Schema = PG_SCHEMA_INFORMATION_SCHEMA /\ q.Table # PG_TABLE_TABLES

\* C18: a reference qualified to pg_catalog (other than the four synthesized views) or to
\* information_schema (other than tables) is returned unchanged with no reload and no
\* change of the cache, also when the cache holds a table of that schema and name; it is
\* never rewritten to a scan node
C18_SystemSchemaPassedThrough ==
    (Called /\ IsPassedThrough(Call.q))
        => /\ NoReload
           /\ IsUnmodified(Call.result, Call.q)

\* pg_catalog.t is passed through while the cache holds pg_catalog.t
C18_Witness ==
    /\ Called
    /\ IsPassedThrough(Call.q)
    /\ NamedPair(Call.q) \in Call.cacheBefore
    /\ IsUnmodified(Call.result, Call.q)

\* C19: a RemapTable call on an Iceberg table that is in the cache makes no reload, leaves
\* the cache as it was and returns the scan node of the table, also when the table is no
\* longer in the bucket
C19_HitDoesNotList ==
    (Called /\ IsIcebergReference(Call.q) /\ LookedUpPair(Call.q) \in Call.cacheBefore)
        => /\ NoReload
           /\ IsScanOf(Call.result, LookedUpPair(Call.q))

\* a table removed from the bucket is still rewritten to a scan node
C19_Witness ==
    /\ Called
    /\ IsIcebergReference(Call.q)
    /\ LookedUpPair(Call.q) \in Call.cacheBefore
    /\ LookedUpPair(Call.q) \notin BackendTables
    /\ IsScanOf(Call.result, LookedUpPair(Call.q))

\* C16: when a listing fails during a reload, at the level of the schemas or at the level
\* of the tables of a schema, the cache is afterwards what it was before the reload, and
\* the call returns no node
C16_FailedReloadKeepsCache ==
    (Called /\ Call.failedListing # None)
        => /\ icebergSchemaTables = Call.cacheBefore
           /\ Call.panicked
           /\ Call.result = None

\* the listing of the tables of a schema fails after the schemas were listed, while the
\* cache holds other tables than the bucket
C16_Witness ==
    /\ Called
    /\ Call.failedListing # None
    /\ Get(Call.failedListing) # IcebergPath \o <<"/">>
    /\ Call.cacheBefore # BackendTables
    /\ BackendTables # {}
    /\ icebergSchemaTables = Call.cacheBefore

-----------------------------------------------------------------------------
(* Claims about DeleteSchemaTable *)

\* the keys under <root>/<schema>/<table>/
KeysUnder(objs, st) ==
    { k \in DOMAIN objs :
        HasPrefix(k, IcebergPath \o <<"/">> \o st.Schema \o <<"/">> \o st.Table \o <<"/">>) }

\* C20: a DeleteSchemaTable call that returns no error leaves no key under the prefix of
\* its table and every other key as it was, the keys of a table of the same schema whose
\* name starts with the name of the table too; it sends a delete request exactly when a
\* key is listed under the prefix, and with no key listed the delete request cannot fail
C20_DeletesExactlyTheTable ==
    [][(lastDelete = None /\ lastDelete' # None) =>
          LET call == Get(lastDelete')
              under == KeysUnder(objects, call.schemaTable)
          IN /\ call.err = "" =>
                  /\ DOMAIN objects' = DOMAIN objects \ under
                  /\ \A k \in DOMAIN objects' : objects'[k] = objects[k]
                  /\ call.requested <=> under # {}
             /\ under = {} => ~call.requested /\ call.err # "delete"]_vars

\* public.t has been deleted and the keys of public.t1 are in the bucket
C20_Witness ==
    /\ lastDelete # None
    /\ Get(lastDelete).err = ""
    /\ Get(lastDelete).requested
    /\ Get(lastDelete).schemaTable = SchemaTable(PG_SCHEMA_PUBLIC, <<"t">>)
    /\ KeysUnder(objects, SchemaTable(PG_SCHEMA_PUBLIC, <<"t">>)) = {}
    /\ KeysUnder(objects, SchemaTable(PG_SCHEMA_PUBLIC, <<"t", "1">>)) # {}

-----------------------------------------------------------------------------
(* C14 *)

\* the commit of w has named its files and they are a complete chain under the version
\* pointer of its table
ChainOfWriter(w) ==
    /\ ctx[w].schemaTable # None
    /\ ctx[w].uuid # None
    /\ ReadableChain(objects, TableOf(w), Get(ctx[w].uuid), Get(ctx[w].rows))

\* every file of the chain that the commit of w has stored is in the bucket as w stored it
StoredChainIntact(w) ==
    /\ ctx[w].parquetFile # None =>
          /\ Holds(objects, Get(ctx[w].parquetFile).Path, "data")
          /\ objects[Get(ctx[w].parquetFile).Path].rows = Get(ctx[w].rows)
    /\ (ctx[w].manifestFile # None /\ Get(ctx[w].manifestFile).Path # << >>) =>
          /\ Holds(objects, Get(ctx[w].manifestFile).Path, "manifest")
          /\ objects[Get(ctx[w].manifestFile).Path].dataFilePath
                = fileSystemPrefix \o Get(ctx[w].parquetFile).Path
    /\ ctx[w].manifestListFile # None =>
          /\ Holds(objects, Get(ctx[w].manifestListFile).Path, "manifest_list")
          /\ objects[Get(ctx[w].manifestListFile).Path].manifestPath
                = fileSystemPrefix \o Get(ctx[w].manifestFile).Path

\* the uploads of v and w to the table st have interleaved: both commits began before the
\* table had a version pointer, v has returned with its version pointer stored, and the
\* metadata file under that pointer is the one w stored afterwards
Interleaved(v, w, st) ==
    /\ v # w
    /\ ctx[v].schemaTable = Some(st) /\ ctx[w].schemaTable = Some(st)
    /\ VersionHintKey(st) \notin DOMAIN pre[v] /\ VersionHintKey(st) \notin DOMAIN pre[w]
    /\ pc[v] = "done"
    /\ pc[w] \in {"hint_temp", "hint_write", "hint_upload"}
    /\ Holds(objects, VersionHintKey(st), "version_hint")
    /\ Holds(objects, MetadataKey(st), "metadata")
    /\ objects[MetadataKey(st)].manifestListPath
          = fileSystemPrefix \o Get(ctx[w].manifestListFile).Path

-----------------------------------------------------------------------------
(* C15 *)

\* C15: a lookup that runs while another call reloads sees the whole enumeration from
\* before the reload or the whole enumeration from after it, never a partial one
C15_LookupSeesWholeEnumeration ==
    race.lookup = "returned" =>
        /\ ~race.overrun
        /\ \/ Get(race.view) = race.before
           \/ race.after # None /\ Get(race.view) = Get(race.after)

====
